---- MODULE Spec2Model ----
(***************************************************************************)
(* Model of pyrosimple's item formatting core                              *)
(* (src/pyrosimple/torrent/formatting.py): the formatter catalog,          *)
(* OutputMapping.__getitem__, validate_field_list and                      *)
(* validate_sort_fields.                                                   *)
(*                                                                         *)
(* Python strings are sequences of one-character strings, so that          *)
(* splitting, upper-casing and iterating over a string are computed as     *)
(* Python computes them.  Python values are records [k, v] (k the type),   *)
(* a raised exception is a record [k |-> "raise", cls, msg, args].         *)
(***************************************************************************)
EXTENDS Integers, Sequences, FiniteSets, TLC

\* ------------------------------------------------------------------ bounds
\* longest formatter chain written after the field name of a format spec
MaxChain == 2
\* latest reading of the clock
MaxNow == 1
\* most names in a field list
MaxFields == 2
\* most flag characters in a directive of an interpolation string
MaxFlags == 2

VARIABLES
  now,        \* time.time(), in seconds
  fs,         \* the file system: path -> modification time of the files that exist
  FIELDS,     \* engine.FieldDefinition.FIELDS: the names registered
  obj,        \* OutputMapping.obj of the adapter in use
  defaults,   \* OutputMapping.defaults of the adapter in use
  op,         \* the last operation called
  arg,        \* its argument
  ret,        \* what it returned, or the exception it raised
  invoked,    \* the formatters it invoked, in order
  chainExc,   \* the exception raised inside it (by the formatter chain, by a
              \* template engine), NoneV if none
  sortarg,    \* the argument of the last validate_sort_fields
  sortkey,    \* the sorting key it returned
  branch,     \* the strategies format_item ran in the last call, in order
  namespace,  \* the namespace format_item handed to expand_template, NoneV if none
  callerd,    \* the caller's defaults mapping: as passed, and as it is now
  conc,       \* the threads that use the field registry at the same time
  mover,      \* the hosts of the Mover job, the call of run_item and its result
  watch       \* the TreeWatch job: its configuration, its two callers of
              \* load_metafile, the watched files and the daemon

\* what the calls of format_item and OutputMapping leave behind
fvars == <<branch, namespace, callerd>>
\* the state of the other components
xvars == <<conc, mover, watch>>

vars == <<now, fs, FIELDS, obj, defaults, op, arg, ret, invoked, chainExc,
          sortarg, sortkey, branch, namespace, callerd, conc, mover, watch>>

\* ----------------------------------------------------------------- strings
S_size == <<"s", "i", "z", "e">>
S_name == <<"n", "a", "m", "e">>
S_path == <<"p", "a", "t", "h">>
S_pc == <<"p", "c">>
S_raw == <<"r", "a", "w">>
S_bogus == <<"b", "o", "g", "u", "s">>
S_cx == <<"c", "x">>
S_sz == <<"s", "z">>
S_iso == <<"i", "s", "o">>
S_duration == <<"d", "u", "r", "a", "t", "i", "o", "n">>
S_delta == <<"d", "e", "l", "t", "a">>
S_strip == <<"s", "t", "r", "i", "p">>
S_subst == <<"s", "u", "b", "s", "t">>
S_mtime == <<"m", "t", "i", "m", "e">>
S_pathbase == <<"p", "a", "t", "h", "b", "a", "s", "e">>
S_pathname == <<"p", "a", "t", "h", "n", "a", "m", "e">>
S_pathext == <<"p", "a", "t", "h", "e", "x", "t">>
S_pathdir == <<"p", "a", "t", "h", "d", "i", "r">>
S_json == <<"j", "s", "o", "n">>
S_nofmt == <<"n", "o", "f", "m", "t">>
S_NA == <<"N", "/", "A">>
S_None == <<"N", "o", "n", "e">>
S_null == <<"n", "u", "l", "l">>
S_bytes == <<" ", "b", "y", "t", "e", "s">>

LowerChars == <<"a", "b", "c", "d", "e", "f", "g", "h", "i", "j", "k", "l", "m",
                "n", "o", "p", "q", "r", "s", "t", "u", "v", "w", "x", "y", "z">>
UpperChars == <<"A", "B", "C", "D", "E", "F", "G", "H", "I", "J", "K", "L", "M",
                "N", "O", "P", "Q", "R", "S", "T", "U", "V", "W", "X", "Y", "Z">>
DigitChars == <<"0", "1", "2", "3", "4", "5", "6", "7", "8", "9">>
Whitespace == {" ", "\t", "\n"}

\* str.upper() on one character
UpperChar(c) ==
  IF \E i \in 1..Len(LowerChars) : LowerChars[i] = c
  THEN UpperChars[CHOOSE i \in 1..Len(LowerChars) : LowerChars[i] = c]
  ELSE c

\* str.upper()
Upper(s) == [i \in 1..Len(s) |-> UpperChar(s[i])]

\* c in s
Contains(s, c) == \E i \in 1..Len(s) : s[i] = c

\* s.split(sep): every piece between separators, empty pieces kept
RECURSIVE Split(_, _)
Split(s, sep) ==
  IF ~Contains(s, sep) THEN <<s>>
  ELSE LET i == CHOOSE j \in 1..Len(s) :
                  s[j] = sep /\ \A m \in 1..(j - 1) : s[m] # sep
       IN <<SubSeq(s, 1, i - 1)>> \o Split(SubSeq(s, i + 1, Len(s)), sep)

\* s.split(): pieces between runs of whitespace, empty pieces dropped
SplitWs(s) ==
  LET ws == [i \in 1..Len(s) |-> IF s[i] \in Whitespace THEN " " ELSE s[i]]
  IN SelectSeq(Split(ws, " "), LAMBDA p : p # <<>>)

\* s.replace(a, b) for one-character a and b
Replace(s, a, b) == [i \in 1..Len(s) |-> IF s[i] = a THEN b ELSE s[i]]

\* s.strip()
RECURSIVE LStrip(_)
LStrip(s) ==
  IF s # <<>> /\ s[1] \in Whitespace THEN LStrip(Tail(s)) ELSE s
RECURSIVE RStrip(_)
RStrip(s) ==
  IF s # <<>> /\ s[Len(s)] \in Whitespace
  THEN RStrip(SubSeq(s, 1, Len(s) - 1)) ELSE s
Strip(s) == RStrip(LStrip(s))

\* s.rjust(width)
RJust(s, width) ==
  IF Len(s) >= width THEN s
  ELSE [i \in 1..(width - Len(s)) |-> " "] \o s

\* str(n) for an integer n >= 0
RECURSIVE IntStr(_)
IntStr(n) ==
  IF n < 10 THEN <<DigitChars[n + 1]>>
  ELSE IntStr(n \div 10) \o <<DigitChars[(n % 10) + 1]>>

IsDigits(s) ==
  s # <<>> /\ \A i \in 1..Len(s) : \E d \in 1..10 : DigitChars[d] = s[i]

\* int(s) for a string of decimal digits
RECURSIVE DigitsVal(_)
DigitsVal(s) ==
  IF s = <<>> THEN 0
  ELSE 10 * DigitsVal(SubSeq(s, 1, Len(s) - 1))
       + (CHOOSE d \in 0..9 : DigitChars[d + 1] = s[Len(s)])

\* index of the last occurrence of c in s, 0 when there is none
LastIndex(s, c) ==
  IF Contains(s, c)
  THEN CHOOSE i \in 1..Len(s) : s[i] = c /\ \A m \in (i + 1)..Len(s) : s[m] # c
  ELSE 0

\* ------------------------------------------------------------------ values
NoneV == [k |-> "None", v |-> <<>>]
StrV(s) == [k |-> "str", v |-> s]
IntV(n) == [k |-> "int", v |-> n]
FloatV(n) == [k |-> "float", v |-> n]
BoolV(b) == [k |-> "bool", v |-> b]
TupleV(t) == [k |-> "tuple", v |-> t]
ListV(l) == [k |-> "list", v |-> l]
DictV(d) == [k |-> "dict", v |-> d]
ItemV(attrs) == [k |-> "item", v |-> attrs]
\* the dict with no key
EmptyDict == [n \in {} |-> NoneV]

Raise(cls, msg, args) == [k |-> "raise", cls |-> cls, msg |-> msg, args |-> args]
IsRaise(x) == x.k = "raise"

\* bool(val)
Truthy(val) ==
  CASE val.k = "None" -> FALSE
    [] val.k = "str" -> val.v # <<>>
    [] val.k \in {"int", "float"} -> val.v # 0
    [] val.k = "bool" -> val.v
    [] val.k \in {"tuple", "list"} -> val.v # <<>>
    [] val.k = "dict" -> DOMAIN val.v # {}
    [] OTHER -> TRUE

\* str(val)
StrOf(val) ==
  CASE val.k = "str" -> val.v
    [] val.k = "int" -> IntStr(val.v)
    [] val.k = "float" -> IntStr(val.v) \o <<".", "0">>
    [] OTHER -> S_None

\* float(val): the float, or the exception float() raises
FloatOf(val) ==
  CASE val.k \in {"int", "float"} -> FloatV(val.v)
    [] val.k = "str" ->
         IF IsDigits(Strip(val.v)) THEN FloatV(DigitsVal(Strip(val.v)))
         ELSE Raise("ValueError", "could not convert string to float", <<val>>)
    [] OTHER -> Raise("TypeError", "float() argument must be a string or a number", <<val>>)

\* ------------------------------------------------- pyrosimple.util.fmt
\* fmt.human_size(size)
human_size(val) ==
  CASE val.k \in {"int", "float"} -> StrV(RJust(IntStr(val.v), 4) \o S_bytes)
    [] val.k = "str" ->
         IF IsDigits(Strip(val.v))
         THEN StrV(RJust(IntStr(DigitsVal(Strip(val.v))), 4) \o S_bytes)
         ELSE Raise("ValueError", "invalid literal for int()", <<val>>)
    [] OTHER -> Raise("TypeError", "not a number", <<val>>)

\* fmt.iso_datetime(timestamp)
iso_datetime(val) ==
  IF val.k \in {"int", "float"}
  THEN StrV(<<"1", "9", "7", "0", "-", "0", "1", "-", "0", "1", " ",
              "0", "0", ":", "0", "0", ":">>
            \o (IF val.v < 10 THEN <<"0">> ELSE <<>>) \o IntStr(val.v))
  ELSE Raise("TypeError", "an integer is required", <<val>>)

\* fmt.human_duration(time1, time2, precision, short) with short=True
human_duration(val, time2) ==
  IF val.k \in {"int", "float"}
  THEN LET d == IF val.v >= time2 THEN val.v - time2 ELSE time2 - val.v
       IN StrV(RJust(IntStr(d), 3) \o <<"s">>)
  ELSE Raise("TypeError", "unsupported operand", <<val>>)

\* ------------------------------------------------------------ os.path
\* os.path.getmtime(path)
getmtime(val) ==
  CASE val.k = "str" ->
         IF val.v \in DOMAIN fs THEN FloatV(fs[val.v])
         ELSE Raise("OSError", "No such file or directory", <<val>>)
    [] val.k = "int" -> Raise("OSError", "Bad file descriptor", <<val>>)
    [] OTHER -> Raise("TypeError", "stat: path should be string, bytes, os.PathLike or integer", <<val>>)

\* os.path.basename(p)
basename(p) == SubSeq(p, LastIndex(p, "/") + 1, Len(p))

\* os.path.dirname(p)
RECURSIVE RStripSlash(_)
RStripSlash(s) ==
  IF s # <<>> /\ s[Len(s)] = "/" THEN RStripSlash(SubSeq(s, 1, Len(s) - 1)) ELSE s
dirname(p) ==
  LET head == SubSeq(p, 1, LastIndex(p, "/"))
  IN IF head # <<>> /\ \E i \in 1..Len(head) : head[i] # "/"
     THEN RStripSlash(head) ELSE head

\* os.path.splitext(p): <<root, ext>>
splitext(p) ==
  LET sep == LastIndex(p, "/")
      dot == LastIndex(p, ".")
  IN IF dot > sep /\ \E i \in (sep + 1)..(dot - 1) : p[i] # "."
     THEN <<SubSeq(p, 1, dot - 1), SubSeq(p, dot, Len(p))>>
     ELSE <<p, <<>>>>

\* the argument of the path functions, val or "": a string, or the TypeError
\* os.path raises on anything else
PathArg(val) ==
  IF ~Truthy(val) THEN StrV(<<>>)
  ELSE IF val.k = "str" THEN val
  ELSE Raise("TypeError", "expected str, bytes or os.PathLike object", <<val>>)

\* ------------------------------------------------- the formatter catalog
\* the placeholder without its justification
PlaceholderBare(zero) == StrV(S_NA)

\* "N/A".rjust(len(zero)) where zero is the formatter's rendering of 0
Placeholder(zero) == StrV(RJust(S_NA, Len(zero.v)))

\* except (ValueError, TypeError)
CaughtByFmt(r) == IsRaise(r) /\ r.cls \in {"ValueError", "TypeError"}

fmt_sz(val) ==
  LET r == human_size(val)
  IN IF CaughtByFmt(r) THEN Placeholder(human_size(IntV(0))) ELSE r

fmt_iso(val) ==
  LET r == iso_datetime(val)
  IN IF CaughtByFmt(r) THEN Placeholder(iso_datetime(IntV(0))) ELSE r

fmt_duration(val) ==
  LET f == FloatOf(val)
      r == IF IsRaise(f) THEN f ELSE human_duration(f, 0)
  IN IF CaughtByFmt(r) THEN Placeholder(human_duration(IntV(0), 0)) ELSE r

fmt_delta(val) ==
  LET f == FloatOf(val)
      r == IF IsRaise(f) THEN f ELSE human_duration(f, now)
  IN IF CaughtByFmt(r) THEN Placeholder(human_duration(IntV(0), now)) ELSE r

fmt_pc(val) ==
  LET f == FloatOf(val)
  IN IF IsRaise(f) THEN f ELSE FloatV(f.v * 100)

fmt_strip(val) == StrV(Strip(StrOf(val)))

\* fmt_subst(regex, subst) called with the value alone
fmt_subst(val) ==
  Raise("TypeError", "fmt_subst() missing 1 required positional argument", <<val>>)

fmt_mtime(val) == IF Truthy(val) THEN getmtime(val) ELSE FloatV(0)

fmt_pathbase(val) ==
  LET p == PathArg(val) IN IF IsRaise(p) THEN p ELSE StrV(basename(p.v))

fmt_pathname(val) ==
  LET p == PathArg(val)
  IN IF IsRaise(p) THEN p ELSE StrV(splitext(basename(p.v))[1])

fmt_pathext(val) ==
  LET p == PathArg(val) IN IF IsRaise(p) THEN p ELSE StrV(splitext(p.v)[2])

fmt_pathdir(val) ==
  LET p == PathArg(val) IN IF IsRaise(p) THEN p ELSE StrV(dirname(p.v))

fmt_json(val) ==
  CASE val.k = "str" -> StrV(<<"\"">> \o val.v \o <<"\"">>)
    [] val.k = "None" -> StrV(S_null)
    [] OTHER -> StrV(StrOf(val))

\* the names n for which globals() holds "fmt_" + n
FormatterNames ==
  {S_sz, S_iso, S_duration, S_delta, S_pc, S_strip, S_subst, S_mtime,
   S_pathbase, S_pathname, S_pathext, S_pathdir, S_json}

\* globals()["fmt_" + name](val)
CallFmt(name, val) ==
  CASE name = S_sz -> fmt_sz(val)
    [] name = S_iso -> fmt_iso(val)
    [] name = S_duration -> fmt_duration(val)
    [] name = S_delta -> fmt_delta(val)
    [] name = S_pc -> fmt_pc(val)
    [] name = S_strip -> fmt_strip(val)
    [] name = S_subst -> fmt_subst(val)
    [] name = S_mtime -> fmt_mtime(val)
    [] name = S_pathbase -> fmt_pathbase(val)
    [] name = S_pathname -> fmt_pathname(val)
    [] name = S_pathext -> fmt_pathext(val)
    [] name = S_pathdir -> fmt_pathdir(val)
    [] name = S_json -> fmt_json(val)

\* ------------------------------------------------------ the field registry
\* the names engine.FieldDefinition.FIELDS holds at start
BuiltinFields == {S_size, S_name, S_path}

\* the names engine.TorrentProxy.add_manifold_attribute can register
Manifold == {S_cx}

\* field._formatter of a registered field: a catalog name, <<>> if it has none
FieldFormatter(name) == IF name = S_size THEN S_sz ELSE <<>>

\* engine.TorrentProxy.add_manifold_attribute(name): whether it registered the
\* name, and the registry after the call
add_manifold_attribute(name, fields) ==
  IF name \in Manifold
  THEN [ok |-> TRUE, fields |-> fields \cup {name}]
  ELSE [ok |-> FALSE, fields |-> fields]

\* ------------------------------------------------------------ OutputMapping
\* defaults.setdefault(key, val)
SetDefault(d, key, val) ==
  IF key \in DOMAIN d THEN d ELSE d @@ (key :> val)

\* OutputMapping.__init__: self.defaults
InitDefaults(d) ==
  SetDefault(IF Truthy(d) THEN d.v ELSE EmptyDict, S_pc, StrV(<<"%">>))

\* OutputMapping.__init__, seen from the caller: "defaults or {}" is the
\* caller's own mapping when that is not empty, so setdefault writes into it;
\* an empty or absent mapping is replaced by a new one and left alone
CallerDefaults(d) ==
  [passed |-> d, held |-> IF Truthy(d) THEN DictV(InitDefaults(d)) ELSE d]

\* lambda val, f=fmtfunc, k=formatter: f(k(val)), or fmtfunc when formatter is
\* None: the chain k followed by f
ComposeNamed(formatter, fmtname) == Append(formatter, fmtname)

\* the intrinsic formatter composed after the chain instead of before it
ComposeIntrinsicLast(formatter, intrinsic) == Append(formatter, intrinsic)

\* lambda val, f=formatter: f(field._formatter(val)), or field._formatter when
\* formatter is None: the intrinsic formatter followed by the chain f
ComposeIntrinsic(formatter, intrinsic) == <<intrinsic>> \o formatter

\* the loop over the format names: the composed formatter, or the UserError of
\* the first name the catalog does not hold
RECURSIVE BuildChain(_, _, _)
BuildChain(formats, formatter, key) ==
  IF formats = <<>> THEN [k |-> "chain", v |-> formatter]
  ELSE IF Head(formats) \notin FormatterNames
  THEN Raise("UserError", "Unknown formatting spec", <<Head(formats), key>>)
  ELSE BuildChain(Tail(formats), ComposeNamed(formatter, Head(formats)), key)

\* formatter(val): the result (or the exception raised) and the formatters
\* invoked on the way
RECURSIVE ApplyChain(_, _, _)
ApplyChain(chain, val, done) ==
  IF chain = <<>> THEN [out |-> val, invoked |-> done]
  ELSE LET r == CallFmt(Head(chain), val)
       IN IF IsRaise(r) THEN [out |-> r, invoked |-> Append(done, Head(chain))]
          ELSE ApplyChain(Tail(chain), r, Append(done, Head(chain)))

\* getattr(self.obj, key)
GetAttr(o, key) ==
  IF o.k = "item" /\ key \in DOMAIN o.v THEN o.v[key]
  ELSE Raise("AttributeError", "object has no attribute", <<key>>)

\* except (TypeError, ValueError, KeyError, IndexError, AttributeError)
CaughtByGetItem(r) ==
  IsRaise(r) /\ r.cls \in {"TypeError", "ValueError", "KeyError", "IndexError",
                          "AttributeError"}

\* the column name without the case of pc
ColumnNamePlain(key) == StrV(Upper(key))

\* header mode: "%" if key == "pc" else key.upper()
ColumnName(key) == IF key = S_pc THEN StrV(<<"%">>) ELSE StrV(Upper(key))

\* the value branch: the attribute or the default, then the formatter
FormattedValue(o, d, key, formatter) ==
  LET a == GetAttr(o, key)
      val == IF ~IsRaise(a) THEN a
             ELSE IF key \in DOMAIN d THEN d[key]
             ELSE Raise("AttributeError", "for", <<o, key>>)
      r == ApplyChain(formatter, val, <<>>)
  IN IF IsRaise(val) THEN [ret |-> val, invoked |-> <<>>, chainExc |-> NoneV]
     ELSE IF CaughtByGetItem(r.out)
     THEN [ret |-> Raise("LoggableError", "While formatting", <<key, val, r.out>>),
           invoked |-> r.invoked, chainExc |-> r.out]
     ELSE [ret |-> r.out, invoked |-> r.invoked,
           chainExc |-> IF IsRaise(r.out) THEN r.out ELSE NoneV]

\* the lookup with the registration attempted before the defaults are consulted
LookupFieldEager(key, d, fields) ==
  IF key \in fields THEN [ok |-> TRUE, fields |-> fields]
  ELSE LET r == add_manifold_attribute(key, fields)
       IN [ok |-> r.ok \/ key \in DOMAIN d, fields |-> r.fields]

\* the lookup of the field: FIELDS[key], else key in self.defaults, else
\* add_manifold_attribute(key); ok is FALSE when all three miss
LookupField(key, d, fields) ==
  IF key \in fields \/ key \in DOMAIN d THEN [ok |-> TRUE, fields |-> fields]
  ELSE add_manifold_attribute(key, fields)

\* OutputMapping.__getitem__(key) on the adapter (o, d) with registry fields:
\* [ret, invoked, chainExc, fields]
GetItem(o, d, fields, fullkey) ==
  LET parts == Split(fullkey, ".")
      key == IF Contains(fullkey, ".") THEN parts[1] ELSE fullkey
      formats0 == IF Contains(fullkey, ".") THEN Tail(parts) ELSE <<>>
      have_raw == formats0 # <<>> /\ formats0[1] = S_raw
      formats == IF have_raw THEN Tail(formats0) ELSE formats0
      built == BuildChain(formats, <<>>, key)
      known == key \in fields
      reg == LookupField(key, d, fields)
      formatter == IF known /\ FieldFormatter(key) # <<>> /\ ~have_raw
                   THEN ComposeIntrinsic(built.v, FieldFormatter(key))
                   ELSE built.v
  IN IF IsRaise(built)
     THEN [ret |-> built, invoked |-> <<>>, chainExc |-> NoneV, fields |-> fields]
     ELSE IF ~reg.ok
     THEN [ret |-> Raise("UserError", "Unknown field", <<key>>),
           invoked |-> <<>>, chainExc |-> NoneV, fields |-> reg.fields]
     ELSE IF o.k = "None"
     THEN [ret |-> ColumnName(key), invoked |-> <<>>, chainExc |-> NoneV,
           fields |-> reg.fields]
     ELSE FormattedValue(o, d, key, formatter) @@ [fields |-> reg.fields]

\* ------------------------------------------------------ validate_field_list
\* sort_order_filter(name) of validate_sort_fields: the name without its flag
SortOrderName(name) ==
  IF name # <<>> /\ name[1] = "-" THEN Tail(name) ELSE name

\* the names sort_order_filter adds to descending over the list
Descending(names) ==
  {Tail(names[i]) : i \in {j \in 1..Len(names) : names[j] # <<>> /\ names[j][1] = "-"}}

\* the check of a format name without the exception for raw
UnknownFmtSpecNoRaw(fmtspec) == fmtspec \notin FormatterNames

\* the check of one chained format name: fmtspec not in formats and != "raw"
UnknownFmtSpec(fmtspec) == fmtspec \notin FormatterNames /\ fmtspec # S_raw

\* the loop over split_fields: None, or the UserError of the first bad name,
\* and the registry after it
RECURSIVE ValidateNames(_, _, _)
ValidateNames(names, allow_fmt_specs, fields) ==
  IF names = <<>> THEN [ret |-> NoneV, fields |-> fields]
  ELSE LET fullname == Head(names)
           dotted == allow_fmt_specs /\ Contains(fullname, ".")
           parts == Split(fullname, ".")
           name == IF dotted THEN parts[1] ELSE fullname
           fmtspecs == IF dotted THEN Tail(parts) ELSE <<>>
           bad == {i \in 1..Len(fmtspecs) : UnknownFmtSpec(fmtspecs[i])}
           reg == IF name \in fields THEN [ok |-> TRUE, fields |-> fields]
                  ELSE add_manifold_attribute(name, fields)
       IN IF bad # {}
          THEN [ret |-> Raise("UserError", "Unknown format specification",
                              <<fmtspecs[CHOOSE i \in bad : \A j \in bad : i <= j],
                                fullname>>),
                fields |-> fields]
          ELSE IF ~reg.ok
          THEN [ret |-> Raise("UserError", "Unknown field name", <<name>>),
                fields |-> reg.fields]
          ELSE ValidateNames(Tail(names), allow_fmt_specs, reg.fields)

\* what validate_field_list hands back on success
ReturnedFields(fields, split_fields) == fields

\* validate_field_list(fields, allow_fmt_specs, name_filter), name_filter being
\* None or sort_order_filter: [ret, fields (the registry), descending]
validate_field_list(fields, allow_fmt_specs, name_filter, regfields) ==
  IF fields.k # "str"
  THEN [ret |-> Raise("UnboundLocalError", "local variable 'split_fields' referenced before assignment", <<>>),
        fields |-> regfields, descending |-> {}]
  ELSE LET split == SplitWs(Replace(fields.v, ",", " "))
           split_fields == [i \in 1..Len(split) |-> Strip(split[i])]
           filtered == IF name_filter
                       THEN [i \in 1..Len(split_fields) |-> SortOrderName(split_fields[i])]
                       ELSE split_fields
           r == ValidateNames(filtered, allow_fmt_specs, regfields)
       IN [ret |-> IF IsRaise(r.ret) THEN r.ret
                   ELSE ReturnedFields(fields, ListV(filtered)),
           fields |-> r.fields,
           descending |-> IF name_filter THEN Descending(split_fields) ELSE {}]

\* ----------------------------------------------------- validate_sort_fields
\* iterating over a value: the characters of a str, the elements of a list
Iter(val) ==
  IF val.k = "str" THEN [i \in 1..Len(val.v) |-> <<val.v[i]>>] ELSE val.v

NoSortKey == [k |-> "none", sort_fields |-> NoneV, descending |-> {}]

\* validate_sort_fields(sort_fields): [ret, fields (the registry)], ret being
\* the sorting key or the exception raised
validate_sort_fields(sort_fields, regfields) ==
  LET r == validate_field_list(sort_fields, FALSE, TRUE, regfields)
  IN IF IsRaise(r.ret) THEN [ret |-> r.ret, fields |-> r.fields]
     ELSE IF r.descending = {}
     THEN [ret |-> IF Iter(r.ret) = <<>>
                   THEN Raise("TypeError", "attrgetter expected 1 argument, got 0", <<>>)
                   ELSE [k |-> "attrgetter", sort_fields |-> r.ret, descending |-> {}],
           fields |-> r.fields]
     ELSE [ret |-> [k |-> "Key", sort_fields |-> r.ret, descending |-> r.descending],
           fields |-> r.fields]

\* operator.attrgetter(*attrs)(o): the attribute for one name, the tuple of the
\* attributes for several, AttributeError for the first one missing
AttrGetter(attrs, o) ==
  LET missing == {i \in 1..Len(attrs) : IsRaise(GetAttr(o, attrs[i]))}
  IN IF missing # {}
     THEN GetAttr(o, attrs[CHOOSE i \in missing : \A j \in missing : i <= j])
     ELSE IF Len(attrs) = 1 THEN GetAttr(o, attrs[1])
     ELSE TupleV([i \in 1..Len(attrs) |-> GetAttr(o, attrs[i])])

\* the order of the characters (code points) the model's strings use
CharOrder == DigitChars \o UpperChars \o LowerChars
CharRank(c) ==
  IF \E i \in 1..Len(CharOrder) : CharOrder[i] = c
  THEN CHOOSE i \in 1..Len(CharOrder) : CharOrder[i] = c
  ELSE 0

\* s < t for strings
RECURSIVE StrLess(_, _)
StrLess(s, t) ==
  IF t = <<>> THEN FALSE
  ELSE IF s = <<>> THEN TRUE
  ELSE IF s[1] = t[1] THEN StrLess(Tail(s), Tail(t))
  ELSE CharRank(s[1]) < CharRank(t[1])

\* lhs < rhs: a bool, or the TypeError of values that do not compare
Less(lhs, rhs) ==
  IF lhs.k \in {"int", "float"} /\ rhs.k \in {"int", "float"} THEN BoolV(lhs.v < rhs.v)
  ELSE IF lhs.k = "str" /\ rhs.k = "str" THEN BoolV(StrLess(lhs.v, rhs.v))
  ELSE Raise("TypeError", "'<' not supported", <<lhs, rhs>>)

\* the result for the first field whose values differ
KeyDecide(lhs, rhs, is_descending) ==
  IF is_descending THEN Less(rhs, lhs) ELSE Less(lhs, rhs)

\* Key.__lt__(self, other) over the fields left to walk
RECURSIVE KeyLt(_, _, _, _)
KeyLt(fieldseq, descending, a, b) ==
  IF fieldseq = <<>> THEN BoolV(FALSE)
  ELSE LET field == Head(fieldseq)
           lhs == GetAttr(a, field)
           rhs == GetAttr(b, field)
       IN IF IsRaise(lhs) THEN lhs
          ELSE IF IsRaise(rhs) THEN rhs
          ELSE IF lhs = rhs THEN KeyLt(Tail(fieldseq), descending, a, b)
          ELSE KeyDecide(lhs, rhs, field \in descending)

\* -------------------------------------------------------------- format_item
\* the character classes of the pattern that rewrites a header's directives:
\* [_.a-zA-Z0-9], [-#+0 ], [.0-9] and [diouxXeEfFgG]
CharsOf(s) == {s[i] : i \in 1..Len(s)}
NameClass == {"_", "."} \cup CharsOf(LowerChars) \cup CharsOf(UpperChars) \cup CharsOf(DigitChars)
FlagClass == {"-", "#", "+", "0", " "}
DotDigitClass == {"."} \cup CharsOf(DigitChars)
ConvClass == {"d", "i", "o", "u", "x", "X", "e", "E", "f", "F", "g", "G"}

\* first index from i on whose character is not in the class, Len(s) + 1 if none
RECURSIVE RunEnd(_, _, _)
RunEnd(s, i, class) ==
  IF i <= Len(s) /\ s[i] \in class THEN RunEnd(s, i + 1, class) ELSE i

\* [0-9]*?)[.0-9]*[diouxXeEfFgG] from index m: the lazy [0-9]*? takes nothing,
\* [.0-9]* takes the whole run and the conversion character must follow it.
\* The index after the match, 0 when there is no match
MatchTail(s, m) ==
  LET r == RunEnd(s, m, DotDigitClass)
  IN IF r <= Len(s) /\ s[r] \in ConvClass THEN r + 1 ELSE 0

\* the pattern matched at index i: [end |-> index after the match, g1 |-> the
\* last index of group 1], end = 0 when there is no match at i
MatchAt(s, i) ==
  LET j == RunEnd(s, i + 1, NameClass)
      k == j + 1
      withFlag == IF k <= Len(s) /\ s[k] \in FlagClass THEN MatchTail(s, k + 1) ELSE 0
      noFlag == MatchTail(s, k)
  IN IF ~(s[i] = "(" /\ j > i + 1 /\ j <= Len(s) /\ s[j] = ")")
     THEN [end |-> 0, g1 |-> 0]
     ELSE IF withFlag # 0 THEN [end |-> withFlag, g1 |-> k]
     ELSE [end |-> noFlag, g1 |-> j]

\* re.sub(pattern, lambda m: m.group(1) + "s", format_spec), from index i on
RECURSIVE HeaderRewriteFrom(_, _)
HeaderRewriteFrom(s, i) ==
  IF i > Len(s) THEN <<>>
  ELSE LET m == MatchAt(s, i)
       IN IF m.end # 0
          THEN SubSeq(s, i, m.g1) \o <<"s">> \o HeaderRewriteFrom(s, m.end)
          ELSE <<s[i]>> \o HeaderRewriteFrom(s, i + 1)
HeaderRewrite(s) == HeaderRewriteFrom(s, 1)

\* ---- format % mapping: the printf-style formatting of str (CPython's
\* unicode_format), for numbers that are not negative
PyFlagClass == {"-", "+", " ", "#", "0"}
LengthClass == {"h", "l", "L"}
StrConv == {"s", "r", "a"}
IntConv == {"d", "i", "u"}
BaseConv == {"o", "x", "X"}
FloatConv == {"e", "E", "f", "F", "g", "G"}
HexLower == DigitChars \o <<"a", "b", "c", "d", "e", "f">>
HexUpper == DigitChars \o <<"A", "B", "C", "D", "E", "F">>

Spaces(n) == [i \in 1..n |-> " "]
Zeros(n) == [i \in 1..n |-> "0"]

\* the digits of n >= 0 in a base, with the digits of a table
RECURSIVE ToBase(_, _, _)
ToBase(n, base, table) ==
  IF n < base THEN <<table[n + 1]>>
  ELSE ToBase(n \div base, base, table) \o <<table[(n % base) + 1]>>

\* the adapter itself, the argument of a directive without a key
MappingObject == [k |-> "OutputMapping", v |-> <<>>]
\* its repr, the address left out
S_mapping == <<"<", "O", "u", "t", "p", "u", "t", "M", "a", "p", "p", "i", "n", "g", ">">>

\* chr(n), the one character %c makes of an integer
S_chr == "chr"

\* str(val) and repr(val) of the argument of %s and %r
PyStr(val) == IF val.k = "OutputMapping" THEN S_mapping ELSE StrOf(val)
PyRepr(val) == IF val.k = "str" THEN <<"'">> \o val.v \o <<"'">> ELSE PyStr(val)

\* the width of a string conversion: left-justified with "-", else to the right
PyPad(text, flags, width) ==
  IF Len(text) >= width THEN text
  ELSE IF "-" \in flags THEN text \o Spaces(width - Len(text))
  ELSE Spaces(width - Len(text)) \o text

\* the sign and the width of a number conversion
PySign(flags) ==
  IF "+" \in flags THEN <<"+">> ELSE IF " " \in flags THEN <<" ">> ELSE <<>>
PyPadNum(digits, flags, width) ==
  LET body == PySign(flags) \o digits
  IN IF Len(body) >= width THEN body
     ELSE IF "-" \in flags THEN body \o Spaces(width - Len(body))
     ELSE IF "0" \in flags THEN PySign(flags) \o Zeros(width - Len(body)) \o digits
     ELSE Spaces(width - Len(body)) \o body

\* the number a number conversion takes: int, float and bool qualify
IsNumber(val) == val.k \in {"int", "float", "bool"}
NumberOf(val) == IF val.k = "bool" THEN (IF val.v THEN 1 ELSE 0) ELSE val.v

\* one conversion: the text, or the exception of a value of the wrong type.
\* prec is -1 when the directive has no precision.  The e and g conversions
\* are written for one-digit numbers.
Convert(val, conv, flags, width, prec) ==
  LET p == IF prec < 0 THEN 6 ELSE prec
      frac == IF p = 0 /\ "#" \notin flags THEN <<>> ELSE <<".">> \o Zeros(p)
  IN CASE conv \in StrConv ->
            LET text == IF conv = "s" THEN PyStr(val) ELSE PyRepr(val)
                cut == IF prec >= 0 /\ prec < Len(text) THEN SubSeq(text, 1, prec) ELSE text
            IN StrV(PyPad(cut, flags, width))
       [] conv \in IntConv ->
            IF IsNumber(val) THEN StrV(PyPadNum(IntStr(NumberOf(val)), flags, width))
            ELSE Raise("TypeError", "%d format: a real number is required", <<val>>)
       [] conv \in BaseConv ->
            IF val.k \in {"int", "bool"}
            THEN LET n == NumberOf(val)
                     digits == CASE conv = "o" -> ToBase(n, 8, DigitChars)
                                 [] conv = "x" -> ToBase(n, 16, HexLower)
                                 [] OTHER -> ToBase(n, 16, HexUpper)
                     prefix == IF "#" \in flags THEN <<"0", conv>> ELSE <<>>
                 IN StrV(PyPadNum(prefix \o digits, flags, width))
            ELSE Raise("TypeError", "%x format: an integer is required", <<val>>)
       [] conv \in FloatConv ->
            IF IsNumber(val)
            THEN LET n == IntStr(NumberOf(val))
                     digits == CASE conv \in {"f", "F"} -> n \o frac
                                 [] conv = "e" -> n \o frac \o <<"e", "+", "0", "0">>
                                 [] conv = "E" -> n \o frac \o <<"E", "+", "0", "0">>
                                 [] OTHER -> n
                 IN StrV(PyPadNum(digits, flags, width))
            ELSE Raise("TypeError", "must be real number", <<val>>)
       [] conv = "c" ->
            IF val.k = "int" THEN StrV(PyPad(<<S_chr>>, flags, width))
            ELSE IF val.k = "str" /\ Len(val.v) = 1 THEN StrV(PyPad(val.v, flags, width))
            ELSE Raise("TypeError", "%c requires int or char", <<val>>)
       [] OTHER -> Raise("ValueError", "unsupported format character", <<conv>>)

\* index of the first c in s from index i on, 0 when there is none
IndexFrom(s, i, c) ==
  IF \E j \in i..Len(s) : s[j] = c
  THEN CHOOSE j \in i..Len(s) : s[j] = c /\ \A m \in i..(j - 1) : s[m] # c
  ELSE 0

\* F(x) with x evaluated once
Eval(x, F(_)) == CHOOSE v \in {F(y) : y \in {x}} : TRUE

\* the directive that starts with the "%" at index i: the key (in parentheses
\* that hold no parentheses), the flags, the width, the precision, a length
\* modifier and the conversion character at index at
Directive(s, i) ==
  LET keyed == i < Len(s) /\ s[i + 1] = "("
      digits == CharsOf(DigitChars)
  IN Eval(IF keyed THEN IndexFrom(s, i + 2, ")") ELSE 0, LAMBDA close :
     Eval(IF keyed THEN close + 1 ELSE i + 1, LAMBDA f :
     Eval(RunEnd(s, f, PyFlagClass), LAMBDA w :
     Eval(RunEnd(s, w, digits), LAMBDA dot :
     Eval(IF dot <= Len(s) /\ s[dot] = "." THEN RunEnd(s, dot + 1, digits) ELSE dot,
          LAMBDA l :
       [keyed |-> keyed,
        closed |-> close # 0,
        key |-> IF close # 0 THEN SubSeq(s, i + 2, close - 1) ELSE <<>>,
        flags |-> {s[j] : j \in f..(w - 1)},
        width |-> DigitsVal(SubSeq(s, w, dot - 1)),
        prec |-> IF l > dot THEN DigitsVal(SubSeq(s, dot + 1, l - 1)) ELSE -1,
        at |-> IF l <= Len(s) /\ s[l] \in LengthClass THEN l + 1 ELSE l])))))

\* the pieces of a format string from index i on, in order: a character of
\* text (dir |-> FALSE), "%%", or a directive with its conversion character
\* (conv |-> "" when the string ends before it)
RECURSIVE Pieces(_, _)
Pieces(s, i) ==
  IF i > Len(s) THEN <<>>
  ELSE IF s[i] # "%" THEN <<[dir |-> FALSE, text |-> <<s[i]>>]>> \o Pieces(s, i + 1)
  ELSE IF i < Len(s) /\ s[i + 1] = "%"
  THEN <<[dir |-> FALSE, text |-> <<"%">>]>> \o Pieces(s, i + 2)
  ELSE Eval(Directive(s, i), LAMBDA dir :
         <<[dir |-> TRUE, spec |-> dir,
            conv |-> IF dir.at > Len(s) THEN "" ELSE s[dir.at]]>>
         \o (IF dir.at > Len(s) \/ (dir.keyed /\ ~dir.closed) THEN <<>>
             ELSE Pieces(s, dir.at + 1)))

\* one piece rendered with OutputMapping(o, d): [ret |-> its text or the
\* exception, fields |-> the registry afterwards].  The value of a key is
\* looked up when the key is read, before the conversion character is; a
\* directive without a key takes the mapping itself
RenderPiece(piece, o, d, fields) ==
  IF ~piece.dir THEN [ret |-> StrV(piece.text), fields |-> fields]
  ELSE IF piece.spec.keyed /\ ~piece.spec.closed
  THEN [ret |-> Raise("ValueError", "incomplete format key", <<>>), fields |-> fields]
  ELSE
    Eval(IF piece.spec.keyed THEN GetItem(o, d, fields, piece.spec.key)
         ELSE [ret |-> MappingObject, fields |-> fields], LAMBDA got :
      IF IsRaise(got.ret) THEN [ret |-> got.ret, fields |-> got.fields]
      ELSE IF piece.conv = ""
      THEN [ret |-> Raise("ValueError", "incomplete format", <<>>), fields |-> got.fields]
      ELSE [ret |-> Convert(got.ret, piece.conv, piece.spec.flags, piece.spec.width,
                            piece.spec.prec),
            fields |-> got.fields])

\* the pieces from the n-th on rendered in order after out, up to the first
\* exception
RECURSIVE RenderPieces(_, _, _, _, _, _)
RenderPieces(pieces, n, o, d, fields, out) ==
  IF n > Len(pieces) THEN [ret |-> StrV(out), fields |-> fields]
  ELSE Eval(RenderPiece(pieces[n], o, d, fields), LAMBDA r :
         IF IsRaise(r.ret) THEN r
         ELSE RenderPieces(pieces, n + 1, o, d, r.fields, out \o r.ret.v))

\* format_spec % OutputMapping(o, d)
PyFormat(s, o, d, fields) == RenderPieces(Pieces(s, 1), 1, o, d, fields, <<>>)

\* ---- the template specs and the two template engines
S_tempita == <<"t", "e", "m", "p", "i", "t", "a">>
S_jinja2 == <<"j", "i", "n", "j", "a", "2">>
S_interpolation == <<"i", "n", "t", "e", "r", "p", "o", "l", "a", "t", "i", "o", "n">>

\* a preparsed template: an object with an __engine__ tag whose source is v
\* (its content, or its fmt attribute when it is an interpolation string)
TemplateV(engine, src) == [k |-> "template", engine |-> engine, v |-> src]

\* getattr(format_spec, "__engine__", None)
GetEngine(format_spec) ==
  IF format_spec.k = "template" THEN format_spec.engine ELSE NoneV

\* s.startswith(prefix)
StartsWith(s, prefix) ==
  Len(s) >= Len(prefix) /\ SubSeq(s, 1, Len(prefix)) = prefix

IsTag(tag, name) == tag.k = "str" /\ tag.v = name

\* a selection that looks at the first characters of the text before the tag
StrategyPrefixFirst(format_spec) ==
  LET tag == GetEngine(format_spec)
  IN IF StartsWith(format_spec.v, <<"{", "{">>) THEN "tempita"
     ELSE IF StartsWith(format_spec.v, <<"{", "#">>) THEN "jinja2"
     ELSE IF IsTag(tag, S_tempita) THEN "tempita"
     ELSE IF IsTag(tag, S_jinja2) THEN "jinja2"
     ELSE "interpolation"

\* the if / elif / else of format_item: the tag decides when there is one, the
\* first characters of the text when there is none; a template object
\* without a tag has no startswith
Strategy(format_spec) ==
  LET tag == GetEngine(format_spec)
      untagged == ~Truthy(tag)
  IN IF untagged /\ format_spec.k # "str" THEN "AttributeError"
     ELSE IF IsTag(tag, S_tempita) \/ (untagged /\ StartsWith(format_spec.v, <<"{", "{">>))
     THEN "tempita"
     ELSE IF IsTag(tag, S_jinja2) \/ (untagged /\ StartsWith(format_spec.v, <<"{", "#">>))
     THEN "jinja2"
     ELSE "interpolation"

\* content.splitlines()
SplitLines(s) ==
  IF s = <<>> THEN <<>>
  ELSE IF s[Len(s)] = "\n" THEN Split(SubSeq(s, 1, Len(s) - 1), "\n")
  ELSE Split(s, "\n")

\* "\n".join("%3d: %s" % (i + 1, line) for i, line in enumerate(lines))
RECURSIVE NumberedFrom(_, _)
NumberedFrom(lines, i) ==
  IF i > Len(lines) THEN <<>>
  ELSE (IF i > 1 THEN <<"\n">> ELSE <<>>)
       \o RJust(IntStr(i), 3) \o <<":", " ">> \o lines[i]
       \o NumberedFrom(lines, i + 1)
NumberedLines(content) == NumberedFrom(SplitLines(content), 1)

\* except (AttributeError, ValueError, NameError, TypeError)
CaughtByExpand(r) ==
  IsRaise(r) /\ r.cls \in {"AttributeError", "ValueError", "NameError", "TypeError"}

\* expand_template(template, namespace), where outcome is what
\* preparse(template).substitute(**variables) comes to in the engine: a text
\* or an exception.  preparse turns an IOError into a LoggableError and an
\* ImportError of tempita into a UserError; the handler wraps four classes
\* and lets every other one through
expand_template(template, ns, outcome) ==
  IF ~IsRaise(outcome) THEN StrV(StrOf(outcome))
  ELSE IF outcome.cls = "IOError"
  THEN Raise("LoggableError", "Cannot read template", <<outcome.msg>>)
  ELSE IF outcome.cls = "ImportError"
  THEN Raise("UserError", "To be able to use Tempita templates, install the 'tempita' package", <<outcome.msg>>)
  ELSE IF CaughtByExpand(outcome)
  THEN Raise("LoggableError", "in template",
             <<outcome.cls, outcome.msg, NumberedLines(template.v)>>)
  ELSE outcome

\* format_spec.render(d=item): a str has no render, a template renders to
\* what the engine makes of it
render(format_spec, outcome) ==
  IF format_spec.k = "str"
  THEN Raise("AttributeError", "'str' object has no attribute 'render'", <<>>)
  ELSE outcome

\* the namespace of the tempita branch: headers is "not bool(item)"; d is the
\* item, or without one the upper-cased name of every registered field, and
\* then every fmt_ name is bound to a function that only justifies
Namespace(item, fields) ==
  [headers |-> ~Truthy(item),
   d |-> IF Truthy(item) THEN item ELSE DictV([n \in fields |-> StrV(Upper(n))]),
   justify |-> ~Truthy(item)]

\* format_item(format_spec, item, defaults) with the registry fields, outcome
\* being what a template engine makes of the spec:
\* [ret, branch |-> the strategies run and whether each rendered headers,
\*  namespace, raised |-> the exception raised inside a template engine,
\*  fields |-> the registry afterwards, callerd |-> the caller's defaults]
format_item(format_spec, item, d, fields, outcome) ==
  LET strategy == Strategy(format_spec)
      ns == Namespace(item, fields)
      fmtstr == IF item.k = "None" THEN HeaderRewrite(format_spec.v) ELSE format_spec.v
      rendered == render(format_spec, outcome)
      untouched == [passed |-> d, held |-> d]
  IN CASE strategy = "AttributeError" ->
            [ret |-> Raise("AttributeError", "object has no attribute 'startswith'", <<>>),
             branch |-> <<>>, namespace |-> NoneV, raised |-> NoneV,
             fields |-> fields, callerd |-> untouched]
       [] strategy = "tempita" ->
            [ret |-> expand_template(format_spec, ns, outcome),
             branch |-> <<[strategy |-> "tempita", headers |-> ns.headers]>>,
             namespace |-> ns,
             raised |-> IF IsRaise(outcome) THEN outcome ELSE NoneV,
             fields |-> fields, callerd |-> untouched]
       [] strategy = "jinja2" ->
            [ret |-> IF IsRaise(rendered) THEN rendered ELSE StrV(StrOf(rendered)),
             branch |-> <<[strategy |-> "jinja2", headers |-> FALSE]>>,
             namespace |-> NoneV,
             raised |-> IF IsRaise(rendered) THEN rendered ELSE NoneV,
             fields |-> fields, callerd |-> untouched]
       [] OTHER ->
            Eval(PyFormat(fmtstr, item, InitDefaults(d), fields), LAMBDA inter :
              [ret |-> inter.ret,
               branch |-> <<[strategy |-> "interpolation", headers |-> item.k = "None"]>>,
               namespace |-> NoneV, raised |-> NoneV,
               fields |-> inter.fields, callerd |-> CallerDefaults(d)])

\* ------------------------------------------------------------------ inputs
\* sep.join(segs)
RECURSIVE Join(_, _)
Join(segs, sep) ==
  IF segs = <<>> THEN <<>>
  ELSE IF Len(segs) = 1 THEN segs[1]
  ELSE segs[1] \o sep \o Join(Tail(segs), sep)

\* the sequences over S of length at most n
SeqsUpTo(S, n) == UNION {[1..m -> S] : m \in 0..n}

P_file == <<"/", "a", "/", "b", ".", "t">>
P_gone == <<"/", "x">>

\* backing items: a complete one, one with a None size and a path that does
\* not exist, and one without a size attribute
Items ==
  { ItemV((S_size :> IntV(5)) @@ (S_name :> StrV(<<" ", "a", "b", " ">>))
          @@ (S_path :> StrV(P_file))),
    ItemV((S_size :> NoneV) @@ (S_name :> StrV(<<"b">>)) @@ (S_path :> StrV(P_gone))),
    ItemV((S_name :> StrV(<<"a">>))) }

\* the defaults a caller passes to OutputMapping
DefaultsArgs ==
  {NoneV, DictV((S_size :> IntV(4)) @@ (S_cx :> StrV(<<"d">>)))}

\* field names and format names format specs are written with
KeyFields == {S_size, S_name, S_path, S_pc, S_bogus, S_cx}
KeyFormats == {S_raw, S_sz, S_strip, S_mtime, S_nofmt}
Keys ==
  {Join(<<f>> \o c, <<".">>) : f \in KeyFields, c \in SeqsUpTo(KeyFormats, MaxChain)}

\* field lists: names, flagged names and format specs, joined by a separator
FieldWords ==
  {S_size, S_name, <<"-">> \o S_size, <<"-">> \o S_name, S_bogus, S_cx,
   Join(<<S_size, S_sz>>, <<".">>), Join(<<S_name, S_raw, S_strip>>, <<".">>),
   Join(<<S_size, S_nofmt>>, <<".">>)}
FieldLists ==
  {StrV(Join(w, sep)) : w \in SeqsUpTo(FieldWords, MaxFields), sep \in {<<" ">>, <<",", " ">>}}
  \cup {ListV(<<S_size, S_name>>), ListV(<<S_bogus>>)}

\* the field lists sorts are asked for
SortWords == {S_size, S_name, <<"-">> \o S_size, <<"-">> \o S_name, S_bogus}
SortLists ==
  {StrV(Join(w, <<" ">>)) : w \in SeqsUpTo(SortWords, MaxFields)}
  \cup {StrV(Join(<<S_size, S_name>>, <<",">>)), ListV(<<S_size, S_name>>)}

\* the items a sort compares
SortItems ==
  {ItemV((S_size :> IntV(n)) @@ (S_name :> StrV(<<c>>))) : n \in {3, 5}, c \in {"a", "b"}}

\* the directives %(key)<flags><width><.precision><conversion> of
\* interpolation strings
DirectiveKeys == {S_size, S_pc, S_bogus, Join(<<S_size, S_raw>>, <<".">>)}
DirectiveFlags == SeqsUpTo({"-", "+", "0"}, MaxFlags)
DirectiveWidths == {<<>>, <<"5">>}
DirectivePrecisions == {<<>>, <<".", "2">>}
DirectiveConvs == {"s", "d", "f", "c", "x"}
Directives ==
  {<<"%", "(">> \o key \o <<")">> \o fl \o w \o p \o <<c>> :
     key \in DirectiveKeys, fl \in DirectiveFlags, w \in DirectiveWidths,
     p \in DirectivePrecisions, c \in DirectiveConvs}

\* the sources of templates
T_name == <<"{", "{", "d", ".", "n", "a", "m", "e", "}", "}">>
T_comment == <<"{", "#", "x", "#", "}">> \o T_name
T_lines == T_name \o <<"\n">> \o <<"{", "{", "d", ".", "s", "i", "z", "e", "}", "}">>

\* format specs: interpolation strings of one directive and of two with text
\* around them, template strings, and preparsed templates with their tag
FormatSpecs ==
  {StrV(dir) : dir \in Directives}
  \cup {StrV(<<"%", "(">> \o S_size \o <<")", "5", "d", " ", "%", "%", " ", "%", "(">>
              \o S_name \o <<")", "-", "6", ".", "2", "s", "|">>),
        StrV(<<"%", "(">> \o S_size \o <<")", "l", "d">>),
        StrV(S_name),
        StrV(T_name), StrV(T_comment),
        TemplateV(StrV(S_tempita), T_lines), TemplateV(StrV(S_tempita), T_comment),
        TemplateV(StrV(S_jinja2), T_name), TemplateV(StrV(S_jinja2), T_comment),
        TemplateV(StrV(S_interpolation), <<"%", "(">> \o S_name \o <<")", "s">>),
        TemplateV(StrV(S_interpolation), T_name)}

\* the items format_item is given: none, a backing item, a dict without keys
FormatItems == {NoneV, DictV(EmptyDict)} \cup Items

\* what a template engine makes of a template and its namespace
S_text == <<"t", "e", "x", "t">>
EngineOutcomes ==
  {StrV(S_text)}
  \cup {Raise(cls, "engine", <<>>) :
          cls \in {"NameError", "TypeError", "ValueError", "AttributeError",
                   "KeyError", "IOError"}}

\* the values a formatter of the catalog is called with
FormatterValues ==
  {NoneV, IntV(0), IntV(5), FloatV(1), StrV(<<"7">>), StrV(<<" ", "a", "b", " ">>),
   StrV(P_file), StrV(P_gone), ListV(<<>>)}

\* ---------------------------------------------------------- other components
\* a thread that is in no call
IdleThread == [pc |-> "idle"]
\* three threads: reg resolves a key (and registers it when it is dynamic),
\* look tests one name, enum builds the header namespace of the tempita branch
ConcInit == [reg |-> IdleThread, look |-> IdleThread, enum |-> IdleThread]

\* the names the threads ask the registry for
ThreadKeys == {S_size, S_cx, S_bogus}

\* next(iterator) on a dict iterator made when the dict had used entries:
\* RuntimeError when the dict has another size now, else a key not yet
\* given, else the end of the iteration
DictIterNext(fields, used, seen) ==
  IF Cardinality(fields) # used
  THEN Raise("RuntimeError", "dictionary changed size during iteration", <<>>)
  ELSE IF fields \subseteq seen THEN [k |-> "StopIteration"]
  ELSE StrV(CHOOSE name \in fields \ seen : TRUE)
\* ---- job/move_torrent.py
\* the remote hosts of self.config["hosts"] and the items the job is run on
Hosts == {"h1", "h2", "h3"}
MoverItems == {"a", "b"}

\* int.from_bytes(sha256(meta_id + n).digest(), "big") as a table: the
\* digest is an arbitrary number, different for different hosts, so a table
\* gives every host of an item its rank among the digests of that item
DigestTables ==
  {t \in [MoverItems -> [Hosts -> 1..Cardinality(Hosts)]] :
     \A i \in MoverItems : \A g, h \in Hosts : g # h => t[i][g] # t[i][h]}

\* nodes_by_hash_weight(meta_id, nodes): the nodes sorted by their digest,
\* lowest first
RECURSIVE SortedByWeight(_, _)
SortedByWeight(w, nodes) ==
  IF nodes = {} THEN <<>>
  ELSE LET n == CHOOSE m \in nodes : \A o \in nodes : w[m] <= w[o]
       IN <<n>> \o SortedByWeight(w, nodes \ {n})
nodes_by_hash_weight(meta_id, nodes, digest) == SortedByWeight(digest[meta_id], nodes)

\* the names bound in the module's namespace (its imports and definitions);
\* run_item's own names are self, item, host, rproxy and metahash
ModuleNames ==
  {"hashlib", "Path", "Dict", "List", "bencode", "pyrosimple", "config", "error",
   "base", "matching", "pymagic", "rpc", "nodes_by_hash_weight",
   "get_custom_fields", "Mover"}

\* the loop of run_item over the hosts from the n-th on, i being what the
\* name i is bound to: a host that answers d.hash is skipped, the first that
\* raises HashNotFound gets the item, unless dry_run
RECURSIVE MoveLoop(_, _, _, _, _)
MoveLoop(i, order, n, holding, dry_run) ==
  IF n > Len(order) THEN [ret |-> NoneV, holding |-> holding, moved |-> <<>>]
  ELSE IF i \in holding[order[n]] THEN MoveLoop(i, order, n + 1, holding, dry_run)
  ELSE IF dry_run THEN [ret |-> NoneV, holding |-> holding, moved |-> <<>>]
  ELSE [ret |-> NoneV,
        holding |-> [holding EXCEPT ![order[n]] = @ \cup {i}],
        moved |-> <<order[n]>>]

\* the value of a name in run_item: a local, else a name of the module, else
\* NameError
Resolve(name, locals) ==
  IF name \in DOMAIN locals THEN [k |-> "object", v |-> locals[name]]
  ELSE IF name \in ModuleNames THEN [k |-> "object", v |-> name]
  ELSE Raise("NameError", "name is not defined", <<name>>)

\* Mover.run_item(self, item): its body reads i.hash, i.alias and
\* i.move_to_host, and i is no parameter, no local and no name of the module,
\* so the first expression evaluated (line 54) raises NameError
run_item(item, m) ==
  LET i == Resolve("i", [self |-> "self", item |-> item])
  IN IF IsRaise(i) THEN [ret |-> i, holding |-> m.holding, moved |-> <<>>]
     ELSE MoveLoop(i.v, nodes_by_hash_weight(i.v, Hosts, m.digest), 1, m.holding,
                   m.dry_run)

MoverInit ==
  [pc |-> "idle",
   digest |-> CHOOSE t \in DigestTables : TRUE,
   dry_run |-> FALSE,
   holding |-> [h \in Hosts |-> {}]]

\* ---- job/watch.py
\* the files that come to lie under the watched path: their suffix, their
\* size in bytes and the info hash of the metafile they hold
Metafiles ==
  [f \in {"a.torrent", "b.load", "e.torrent", "n.txt"} |->
     CASE f = "a.torrent" -> [suffix |-> ".torrent", size |-> 1, info_hash |-> "H1"]
       [] f = "b.load" -> [suffix |-> ".load", size |-> 1, info_hash |-> "H2"]
       [] f = "e.torrent" -> [suffix |-> ".torrent", size |-> 0, info_hash |-> "none"]
       [] OTHER -> [suffix |-> ".txt", size |-> 1, info_hash |-> "none"]]

\* the two callers of load_metafile: the watcher thread (watch_trees) and the
\* scheduled run()
LoadCallers == {"inotify", "run"}

\* a caller that is not inside load_metafile
NoCall(pc) == [pc |-> pc, path |-> "", todo |-> {}]

\* the job before its construction: no watcher thread, nothing under the
\* watched path, a daemon that holds no item and has been sent no load command
WatchInit ==
  [made |-> FALSE, dry_run |-> FALSE, check_unhandled |-> FALSE,
   remove_unhandled |-> FALSE,
   thread |-> "None",
   disk |-> {}, events |-> {}, removed |-> {},
   held |-> {}, loads |-> [h \in {"H1", "H2"} |-> 0],
   inotify |-> NoCall("wait"), run |-> NoCall("idle")]

\* load_metafile returns: the watcher thread is back at its events (line
\* 165), run() at the statement after its call (line 65)
LoadReturn(t) ==
  IF t = "inotify" THEN NoCall("wait") ELSE [watch.run EXCEPT !.pc = "after"]

\* ----------------------------------------------------------------- actions
Init ==
  /\ now = 0
  /\ fs = [p \in {} |-> 0]
  /\ FIELDS = BuiltinFields
  /\ obj = NoneV
  /\ defaults = InitDefaults(NoneV)
  /\ op = "idle"
  /\ arg = NoneV
  /\ ret = NoneV
  /\ invoked = <<>>
  /\ chainExc = NoneV
  /\ sortarg = NoneV
  /\ sortkey = NoSortKey
  /\ branch = <<>>
  /\ namespace = NoneV
  /\ callerd = CallerDefaults(NoneV)
  /\ conc = ConcInit
  /\ mover = MoverInit
  /\ watch = WatchInit

\* the clock advances
Tick ==
  /\ op = "idle"
  /\ now < MaxNow
  /\ now' = now + 1
  /\ UNCHANGED <<fs, FIELDS, obj, defaults, op, arg, ret, invoked, chainExc,
                 sortarg, sortkey>>
  /\ UNCHANGED <<fvars, xvars>>

\* a file is written
Touch ==
  /\ op = "idle"
  /\ fs' = (P_file :> now)
  /\ fs' # fs
  /\ UNCHANGED <<now, FIELDS, obj, defaults, op, arg, ret, invoked, chainExc,
                 sortarg, sortkey>>
  /\ UNCHANGED <<fvars, xvars>>

\* OutputMapping(o, d)
NewMapping ==
  /\ op = "idle"
  /\ \E o \in Items \cup {NoneV}, d \in DefaultsArgs :
       /\ obj' = o
       /\ defaults' = InitDefaults(d)
       /\ callerd' = CallerDefaults(d)
       /\ <<obj', defaults'>> # <<obj, defaults>>
  /\ UNCHANGED <<now, fs, FIELDS, op, arg, ret, invoked, chainExc, sortarg, sortkey>>
  /\ UNCHANGED <<branch, namespace, xvars>>

\* mapping[key]
GetItemCall ==
  /\ op = "idle"
  /\ \E key \in Keys :
       LET r == GetItem(obj, defaults, FIELDS, key)
       IN /\ op' = "getitem"
          /\ arg' = key
          /\ ret' = r.ret
          /\ invoked' = r.invoked
          /\ chainExc' = r.chainExc
          /\ FIELDS' = r.fields
  /\ UNCHANGED <<now, fs, obj, defaults, sortarg, sortkey>>
  /\ UNCHANGED <<fvars, xvars>>

\* validate_field_list(fields, allow_fmt_specs)
ValidateFieldListCall ==
  /\ op = "idle"
  /\ \E f \in FieldLists, allow \in BOOLEAN :
       LET r == validate_field_list(f, allow, FALSE, FIELDS)
       IN /\ op' = "validate_field_list"
          /\ arg' = <<f, allow>>
          /\ ret' = r.ret
          /\ FIELDS' = r.fields
  /\ UNCHANGED <<now, fs, obj, defaults, invoked, chainExc, sortarg, sortkey>>
  /\ UNCHANGED <<fvars, xvars>>

\* validate_sort_fields(sort_fields)
ValidateSortFieldsCall ==
  /\ op = "idle"
  /\ \E f \in SortLists :
       LET r == validate_sort_fields(f, FIELDS)
       IN /\ op' = "validate_sort_fields"
          /\ arg' = f
          /\ ret' = r.ret
          /\ sortarg' = f
          /\ sortkey' = IF IsRaise(r.ret) THEN NoSortKey ELSE r.ret
          /\ FIELDS' = r.fields
  /\ UNCHANGED <<now, fs, obj, defaults, invoked, chainExc>>
  /\ UNCHANGED <<fvars, xvars>>

\* key(a) with the attrgetter validate_sort_fields returned
SortKeyCall ==
  /\ op = "idle"
  /\ sortkey.k = "attrgetter"
  /\ \E a \in SortItems :
       /\ op' = "key"
       /\ arg' = <<a>>
       /\ ret' = AttrGetter(Iter(sortkey.sort_fields), a)
  /\ UNCHANGED <<now, fs, FIELDS, obj, defaults, invoked, chainExc, sortarg, sortkey>>
  /\ UNCHANGED <<fvars, xvars>>

\* Key(a) < Key(b) with the Key class validate_sort_fields returned
KeyLtCall ==
  /\ op = "idle"
  /\ sortkey.k = "Key"
  /\ \E a \in SortItems, b \in SortItems :
       /\ op' = "lt"
       /\ arg' = <<a, b>>
       /\ ret' = KeyLt(Iter(sortkey.sort_fields), sortkey.descending, a, b)
  /\ UNCHANGED <<now, fs, FIELDS, obj, defaults, invoked, chainExc, sortarg, sortkey>>
  /\ UNCHANGED <<fvars, xvars>>

\* fmt_<name>(val), a formatter of the catalog called on its own
FormatterCall ==
  /\ op = "idle"
  /\ \E name \in FormatterNames, val \in FormatterValues :
       /\ op' = "fmt"
       /\ arg' = <<name, val>>
       /\ ret' = CallFmt(name, val)
  /\ UNCHANGED <<now, fs, FIELDS, obj, defaults, invoked, chainExc, sortarg, sortkey>>
  /\ UNCHANGED <<fvars, xvars>>

\* format_item(format_spec, item, defaults)
FormatItemCall ==
  /\ op = "idle"
  /\ \E spec \in FormatSpecs, item \in FormatItems, d \in DefaultsArgs :
       \E outcome \in IF Strategy(spec) = "interpolation" THEN {NoneV}
                      ELSE EngineOutcomes :
         \E r \in {format_item(spec, item, d, FIELDS, outcome)} :
            /\ op' = "format_item"
            /\ arg' = [spec |-> spec, item |-> item, defaults |-> d, outcome |-> outcome]
            /\ ret' = r.ret
            /\ branch' = r.branch
            /\ namespace' = r.namespace
            /\ chainExc' = r.raised
            /\ FIELDS' = r.fields
            /\ callerd' = r.callerd
  /\ UNCHANGED <<now, fs, obj, defaults, invoked, sortarg, sortkey, xvars>>

\* the call returns to its caller
Return ==
  /\ op # "idle"
  /\ op' = "idle"
  /\ arg' = NoneV
  /\ ret' = NoneV
  /\ invoked' = <<>>
  /\ chainExc' = NoneV
  /\ branch' = <<>>
  /\ namespace' = NoneV
  /\ UNCHANGED <<now, fs, FIELDS, obj, defaults, sortarg, sortkey, callerd, xvars>>


\* ---- the threads.  A thread holds the interpreter between two steps only
\* thread reg: mapping[key] starts (line 150)
RegCall ==
  /\ conc.reg.pc = "idle"
  /\ \E key \in ThreadKeys :
       conc' = [conc EXCEPT !.reg = [pc |-> "lookup", key |-> key]]
  /\ UNCHANGED FIELDS

\* thread reg: engine.FieldDefinition.FIELDS[key] (lines 184-185)
RegLookup ==
  /\ conc.reg.pc = "lookup"
  /\ conc' = [conc EXCEPT !.reg =
                IF conc.reg.key \in FIELDS
                THEN [pc |-> "done", key |-> conc.reg.key, ret |-> NoneV]
                ELSE [pc |-> "register", key |-> conc.reg.key]]
  /\ UNCHANGED FIELDS

\* thread reg: after the KeyError, "key not in self.defaults and not
\* add_manifold_attribute(key)" (lines 186-191)
RegRegister ==
  /\ conc.reg.pc = "register"
  /\ \E r \in {LookupField(conc.reg.key, defaults, FIELDS)} :
       /\ FIELDS' = r.fields
       /\ conc' = [conc EXCEPT !.reg =
                     [pc |-> "done", key |-> conc.reg.key,
                      ret |-> IF r.ok THEN NoneV
                              ELSE Raise("UserError", "Unknown field", <<conc.reg.key>>)]]

\* thread look: "name not in engine.FieldDefinition.FIELDS" (line 383)
LookCall ==
  /\ conc.look.pc = "idle"
  /\ \E key \in ThreadKeys :
       conc' = [conc EXCEPT !.look = [pc |-> "done", key |-> key,
                                     ret |-> BoolV(key \in FIELDS)]]
  /\ UNCHANGED FIELDS

\* thread enum: "for name in engine.FieldDefinition.FIELDS" makes its
\* iterator (line 320)
EnumCall ==
  /\ conc.enum.pc = "idle"
  /\ conc' = [conc EXCEPT !.enum =
                [pc |-> "iter", used |-> Cardinality(FIELDS), seen |-> {}]]
  /\ UNCHANGED FIELDS

\* thread enum: the for statement takes the next name and the body binds
\* namespace["d"][name] = name.upper() (lines 320-321); the RuntimeError of
\* the iterator escapes format_item
EnumNext ==
  /\ conc.enum.pc = "iter"
  /\ \E n \in {DictIterNext(FIELDS, conc.enum.used, conc.enum.seen)} :
       conc' = [conc EXCEPT !.enum =
                 CASE IsRaise(n) -> [pc |-> "done", seen |-> conc.enum.seen, ret |-> n]
                   [] n.k = "StopIteration" ->
                        [pc |-> "done", seen |-> conc.enum.seen, ret |-> NoneV]
                   [] OTHER -> [conc.enum EXCEPT !.seen = @ \cup {n.v}]]
  /\ UNCHANGED FIELDS

\* a thread's call returns
ThreadReturn ==
  /\ \E t \in {"reg", "look", "enum"} :
       /\ conc[t].pc = "done"
       /\ conc' = [conc EXCEPT ![t] = IdleThread]
  /\ UNCHANGED FIELDS

\* the threads leave everything but the registry alone
ThreadFrame ==
  UNCHANGED <<now, fs, obj, defaults, op, arg, ret, invoked, chainExc, sortarg,
              sortkey, fvars, mover, watch>>

\* ---- the Mover job
\* the job is configured: the hosts' digests and dry_run
MoverConfigure ==
  /\ mover.pc = "idle"
  /\ \E t \in DigestTables, dry \in BOOLEAN :
       /\ <<t, dry>> # <<mover.digest, mover.dry_run>>
       /\ mover' = [mover EXCEPT !.digest = t, !.dry_run = dry]

\* a remote host comes to hold an item by other means
RemoteLoad ==
  /\ mover.pc = "idle"
  /\ \E h \in Hosts, i \in MoverItems :
       /\ i \notin mover.holding[h]
       /\ mover' = [mover EXCEPT !.holding[h] = @ \cup {i}]

\* Mover.run_item(item)
RunItemCall ==
  /\ mover.pc = "idle"
  /\ \E item \in MoverItems :
       \E r \in {run_item(item, mover)} :
         mover' = [pc |-> "run_item", digest |-> mover.digest,
                   dry_run |-> mover.dry_run, holding |-> r.holding,
                   item |-> item, before |-> mover.holding,
                   ret |-> r.ret, moved |-> r.moved]

\* run_item returns to the job loop
MoverReturn ==
  /\ mover.pc = "run_item"
  /\ mover' = [pc |-> "idle", digest |-> mover.digest, dry_run |-> mover.dry_run,
               holding |-> mover.holding]

\* the Mover job leaves the formatting state alone
MoverFrame ==
  UNCHANGED <<now, fs, FIELDS, obj, defaults, op, arg, ret, invoked, chainExc,
              sortarg, sortkey, fvars, conc, watch>>

\* ---- the TreeWatch job.  Its two callers of load_metafile are threads of
\* one interpreter: a thread gives way to the other at its calls of the
\* daemon and of the file system, so load_metafile is taken in three steps
\* TreeWatch.__init__: the configuration is fixed; the run() it ends with is
\* RunStart
TreeWatchInit ==
  /\ ~watch.made
  /\ \E dry, chk, rem \in BOOLEAN :
       watch' = [watch EXCEPT !.made = TRUE, !.dry_run = dry,
                              !.check_unhandled = chk, !.remove_unhandled = rem]

\* a file is written under the watched path; a living watcher gets the event
\* IN_CLOSE_WRITE or IN_MOVED_TO
FileWritten ==
  \E f \in DOMAIN Metafiles :
    /\ f \notin watch.disk
    /\ watch' = [watch EXCEPT !.disk = @ \cup {f},
                              !.events = IF watch.thread = "alive"
                                         THEN @ \cup {f} ELSE @]

\* the event generator raises, outside the try of watch_trees: the thread
\* ends
WatcherDies ==
  /\ watch.thread = "alive"
  /\ watch.inotify.pc = "wait"
  /\ watch' = [watch EXCEPT !.thread = "dead", !.events = {}]

\* watch_trees takes an event and calls load_metafile (lines 165-173)
WatchEvent ==
  /\ watch.thread = "alive"
  /\ watch.inotify.pc = "wait"
  /\ \E f \in watch.events :
       watch' = [watch EXCEPT !.events = @ \ {f},
                              !.inotify = [pc |-> "read", path |-> f, todo |-> {}]]

\* run(): a dead watcher is forgotten, a missing one started, and with
\* check_unhandled the *.torrent files under the path are listed (lines 51-63)
RunStart ==
  /\ watch.made
  /\ watch.run.pc = "idle"
  /\ watch' = [watch EXCEPT
       !.thread = "alive",
       !.run = IF watch.check_unhandled
               THEN [pc |-> "scan", path |-> "",
                     todo |-> {f \in watch.disk : Metafiles[f].suffix = ".torrent"}]
               ELSE @]

\* run(): the loop takes the next file and calls load_metafile, or ends
\* (lines 63-64)
RunNext ==
  /\ watch.run.pc = "scan"
  /\ \/ /\ watch.run.todo = {}
        /\ watch' = [watch EXCEPT !.run = NoCall("idle")]
     \/ \E f \in watch.run.todo :
          watch' = [watch EXCEPT !.run = [pc |-> "read", path |-> f,
                                         todo |-> watch.run.todo \ {f}]]

\* run(): after load_metafile the file is unlinked if remove_unhandled is
\* set, the file exists and dry_run is off (lines 65-70)
RunUnlink ==
  /\ watch.run.pc = "after"
  /\ LET f == watch.run.path
         next == [watch.run EXCEPT !.pc = "scan", !.path = ""]
     IN watch' = IF watch.remove_unhandled /\ f \in watch.disk /\ ~watch.dry_run
                 THEN [watch EXCEPT !.disk = @ \ {f}, !.removed = @ \cup {f},
                                    !.run = next]
                 ELSE [watch EXCEPT !.run = next]

\* load_metafile: the sanity checks and the reading of the metafile (lines
\* 75-89)
LoadRead ==
  \E t \in LoadCallers :
    /\ watch[t].pc = "read"
    /\ LET f == watch[t].path
       IN watch' = [watch EXCEPT ![t] =
            IF \/ Metafiles[f].suffix \notin {".torrent", ".load", ".start", ".queue"}
               \/ f \notin watch.disk
               \/ Metafiles[f].size = 0
            THEN LoadReturn(t)
            ELSE [@ EXCEPT !.pc = "hash"]]

\* load_metafile: proxy.d.hash answers for a hash the daemon holds and the
\* file is skipped, or raises HashNotFound (lines 90-98)
LoadHash ==
  \E t \in LoadCallers :
    /\ watch[t].pc = "hash"
    /\ watch' = [watch EXCEPT ![t] =
         IF Metafiles[watch[t].path].info_hash \in watch.held
         THEN LoadReturn(t)
         ELSE [@ EXCEPT !.pc = "load"]]

\* load_metafile: the templating values, then with dry_run the return, else
\* the load command, after which the daemon holds the hash (lines 99-156)
LoadIssue ==
  \E t \in LoadCallers :
    /\ watch[t].pc = "load"
    /\ LET h == Metafiles[watch[t].path].info_hash
       IN watch' = IF watch.dry_run
                   THEN [watch EXCEPT ![t] = LoadReturn(t)]
                   ELSE [watch EXCEPT ![t] = LoadReturn(t),
                                      !.loads[h] = @ + 1,
                                      !.held = @ \cup {h}]

\* the TreeWatch job leaves the formatting state and the other jobs alone
WatchFrame ==
  UNCHANGED <<now, fs, FIELDS, obj, defaults, op, arg, ret, invoked, chainExc,
              sortarg, sortkey, fvars, conc, mover>>

\* the adapter and the field-list validator
Next ==
  \/ Tick
  \/ Touch
  \/ NewMapping
  \/ GetItemCall
  \/ ValidateFieldListCall
  \/ Return

Spec == Init /\ [][Next]_vars

\* the field-list validator and the sorting keys
NextSort ==
  \/ ValidateFieldListCall
  \/ ValidateSortFieldsCall
  \/ SortKeyCall
  \/ KeyLtCall
  \/ Return

SpecSort == Init /\ [][NextSort]_vars

\* the formatting of items and of headers
NextFormat ==
  \/ FormatItemCall
  \/ Return

SpecFormat == Init /\ [][NextFormat]_vars

\* the formatter catalog, with the clock and the files it reads
NextCatalog ==
  \/ Tick
  \/ Touch
  \/ FormatterCall
  \/ Return

SpecCatalog == Init /\ [][NextCatalog]_vars

\* threads that use the field registry at the same time
NextConc ==
  \/ RegCall /\ ThreadFrame
  \/ RegLookup /\ ThreadFrame
  \/ RegRegister /\ ThreadFrame
  \/ LookCall /\ ThreadFrame
  \/ EnumCall /\ ThreadFrame
  \/ EnumNext /\ ThreadFrame
  \/ ThreadReturn /\ ThreadFrame

SpecConc == Init /\ [][NextConc]_vars

\* the Mover job and its remote hosts
NextMover ==
  \/ MoverConfigure /\ MoverFrame
  \/ RemoteLoad /\ MoverFrame
  \/ RunItemCall /\ MoverFrame
  \/ MoverReturn /\ MoverFrame

SpecMover == Init /\ [][NextMover]_vars

\* the TreeWatch job: its watcher thread, its scheduled run and the daemon
NextWatch ==
  \/ TreeWatchInit /\ WatchFrame
  \/ FileWritten /\ WatchFrame
  \/ WatcherDies /\ WatchFrame
  \/ WatchEvent /\ WatchFrame
  \/ RunStart /\ WatchFrame
  \/ RunNext /\ WatchFrame
  \/ RunUnlink /\ WatchFrame
  \/ LoadRead /\ WatchFrame
  \/ LoadHash /\ WatchFrame
  \/ LoadIssue /\ WatchFrame

SpecWatch == Init /\ [][NextWatch]_vars

\* ------------------------------------------------------------------ claims
\* the field name and the format names a format spec is written with
SpecField(spec) == Split(spec, <<".">>[1])[1]
SpecFormats(spec) == Tail(Split(spec, <<".">>[1]))
SpecHasRaw(spec) == SpecFormats(spec) # <<>> /\ SpecFormats(spec)[1] = S_raw
SpecNamed(spec) ==
  IF SpecHasRaw(spec) THEN Tail(SpecFormats(spec)) ELSE SpecFormats(spec)
AllInCatalog(names) == \A i \in 1..Len(names) : names[i] \in FormatterNames

\* the last call resolved a format spec against a backing item
ResolvedOnItem == op = "getitem" /\ obj.k = "item"
\* the last call resolved a format spec in header mode
ResolvedHeader == op = "getitem" /\ obj.k = "None"

\* the error classes of pyrosimple.error
ErrorFamily == {"LoggableError", "UserError"}

\* C1: whenever the formatter chain fails while a format spec is resolved
\* against a backing item, whatever the kind of the failure, the caller gets
\* a LoggableError that names the field and the raw value.
C1_ChainFailureWrapped ==
  (ResolvedOnItem /\ IsRaise(chainExc)) =>
    /\ IsRaise(ret)
    /\ ret.cls = "LoggableError"
    /\ ret.args[1] = SpecField(arg)
    /\ ret.args[2] \in {obj.v[f] : f \in DOMAIN obj.v} \cup {defaults[f] : f \in DOMAIN defaults}

\* fn(...f1(v)...): the named formatters applied to v, the last one outermost
RECURSIVE Nested(_, _)
Nested(names, v) ==
  IF names = <<>> THEN v
  ELSE LET inner == Nested(SubSeq(names, 1, Len(names) - 1), v)
       IN IF IsRaise(inner) THEN inner ELSE CallFmt(names[Len(names)], inner)

\* the raw value a format spec resolves on the adapter in use
RawValue(spec) ==
  IF SpecField(spec) \in DOMAIN obj.v THEN obj.v[SpecField(spec)]
  ELSE defaults[SpecField(spec)]

\* C2: a spec field.f1...fn on an item with raw value v yields
\* fn(...f1(g(v))...), g the field's intrinsic formatter, and
\* field.raw.f1...fn yields fn(...f1(v)...); the formatters run in that order,
\* the intrinsic one also when the chain names it again (size.sz).
C2_ChainOrder ==
  (/\ ResolvedOnItem
   /\ AllInCatalog(SpecNamed(arg))
   /\ SpecField(arg) \in FIELDS
   /\ SpecField(arg) \in DOMAIN obj.v \cup DOMAIN defaults) =>
    LET g == FieldFormatter(SpecField(arg))
        v == RawValue(arg)
        gv == IF g = <<>> \/ SpecHasRaw(arg) THEN v ELSE CallFmt(g, v)
        expected == IF IsRaise(gv) THEN gv ELSE Nested(SpecNamed(arg), gv)
        order == (IF g = <<>> \/ SpecHasRaw(arg) THEN <<>> ELSE <<g>>) \o SpecNamed(arg)
    IN /\ IsRaise(expected) <=> IsRaise(ret)
       /\ ~IsRaise(expected) => (ret = expected /\ invoked = order)
       /\ IsRaise(expected) => invoked = SubSeq(order, 1, Len(invoked))
       /\ (arg = Join(<<S_size, S_sz>>, <<".">>) /\ ~IsRaise(v)) =>
            (ret = fmt_sz(fmt_sz(v)) /\ invoked = <<S_sz, S_sz>>)

\* a resolve where the order shows: size.strip of 5 is "5 bytes"
C2_Witness ==
  /\ ResolvedOnItem
  /\ arg = Join(<<S_size, S_strip>>, <<".">>)
  /\ ret = StrV(<<"5">> \o S_bytes)
  /\ invoked = <<S_sz, S_strip>>

\* the label header mode shows for a field
HeaderLabel(field) ==
  IF field = S_pc THEN <<"%">>
  ELSE IF field = S_size THEN <<"S", "I", "Z", "E">>
  ELSE IF field = S_name THEN <<"N", "A", "M", "E">>
  ELSE IF field = S_path THEN <<"P", "A", "T", "H">>
  ELSE Upper(field)

\* C3 as stated: in header mode a registered field name resolves to its
\* upper-cased name and pc to "%", whatever names follow the dot, and no
\* formatter is invoked.
C3_HeaderAnySuffix ==
  (ResolvedHeader /\ SpecField(arg) \in FIELDS \cup {S_pc}) =>
    (ret = StrV(HeaderLabel(SpecField(arg))) /\ invoked = <<>>)

\* C3 amended: in header mode a registered field name resolves to its
\* upper-cased name and pc to "%" whenever every format name after the dot
\* (a leading raw aside) is in the catalog; a format name the catalog lacks
\* fails with the unknown-format-spec UserError; no formatter is invoked
\* either way.
C3_HeaderLabel ==
  (ResolvedHeader /\ SpecField(arg) \in FIELDS \cup {S_pc}) =>
    /\ invoked = <<>>
    /\ AllInCatalog(SpecNamed(arg)) => ret = StrV(HeaderLabel(SpecField(arg)))
    /\ ~AllInCatalog(SpecNamed(arg)) =>
         (IsRaise(ret) /\ ret.cls = "UserError" /\ ret.msg = "Unknown formatting spec")

\* a header resolve of a spec with a formatter suffix
C3_Witness ==
  /\ ResolvedHeader
  /\ arg = Join(<<S_size, S_sz>>, <<".">>)
  /\ ret = StrV(<<"S", "I", "Z", "E">>)

\* the names of a field-list string
ListNames(fields) == SplitWs(Replace(fields.v, ",", " "))
\* the field name of one of them, and the format names chained to it
WordField(w, allow) == IF allow /\ Contains(w, ".") THEN SpecField(w) ELSE w
WordFormats(w, allow) == IF allow /\ Contains(w, ".") THEN SpecFormats(w) ELSE <<>>
\* neither registered nor accepted by dynamic registration
NoSuchField(name) == name \notin FIELDS /\ name \notin Manifold
BadField(w, allow) == NoSuchField(WordField(w, allow))
BadFormat(w, allow) ==
  \E i \in 1..Len(WordFormats(w, allow)) :
     WordFormats(w, allow)[i] \notin FormatterNames \cup {S_raw}
\* the last call validated a field-list string
ValidatedString == op = "validate_field_list" /\ arg[1].k = "str"

\* C4, the results: a field name that the registry, the defaults and dynamic
\* registration all lack fails with the unknown-field UserError, in header
\* mode, with a backing item and in validate_field_list (when the spec also
\* chains a format name the catalog lacks, that UserError comes first); it
\* never yields a value or a label.
C4_Results ==
  /\ (op = "getitem" /\ NoSuchField(SpecField(arg))
        /\ SpecField(arg) \notin DOMAIN defaults) =>
       /\ IsRaise(ret) /\ ret.cls = "UserError"
       /\ AllInCatalog(SpecNamed(arg)) =>
            (ret.msg = "Unknown field" /\ ret.args = <<SpecField(arg)>>)
       /\ ~AllInCatalog(SpecNamed(arg)) => ret.msg = "Unknown formatting spec"
  /\ (ValidatedString
        /\ \E i \in 1..Len(ListNames(arg[1])) : BadField(ListNames(arg[1])[i], arg[2])) =>
       /\ IsRaise(ret) /\ ret.cls = "UserError"
       /\ (\A i \in 1..Len(ListNames(arg[1])) : ~BadFormat(ListNames(arg[1])[i], arg[2]))
            => ret.msg = "Unknown field name"

\* C4, the order: a resolve whose field is registered or in the defaults
\* leaves the registry as it was (dynamic registration is not attempted).
C4_Order ==
  (op = "idle" /\ op' = "getitem"
     /\ (SpecField(arg') \in FIELDS \/ SpecField(arg') \in DOMAIN defaults))
  => FIELDS' = FIELDS

C5_MissingField ==
  (/\ ResolvedOnItem
   /\ SpecField(arg) \in FIELDS
   /\ AllInCatalog(SpecNamed(arg))
   /\ SpecField(arg) \notin DOMAIN obj.v) =>
    IF SpecField(arg) \in DOMAIN defaults
    THEN IsRaise(ret) \/ ret = Nested(invoked, defaults[SpecField(arg)])
    ELSE /\ IsRaise(ret)
         /\ ret.cls \in ErrorFamily
         /\ ret.args = <<obj, SpecField(arg)>>

\* C9: validate_field_list rejects a list by its first bad name: with the
\* unknown-format-specification UserError when that name chains a format name
\* the catalog lacks (format specs allowed), else with the unknown-field-name
\* UserError; the two differ; a list of valid names and valid
\* field.formatter names is accepted.
C9_ValidateFieldList ==
  ValidatedString =>
    LET names == ListNames(arg[1])
        bad == {i \in 1..Len(names) :
                  BadField(names[i], arg[2]) \/ BadFormat(names[i], arg[2])}
        first == CHOOSE i \in bad : \A j \in bad : i <= j
    IN IF bad = {} THEN ~IsRaise(ret)
       ELSE /\ IsRaise(ret) /\ ret.cls = "UserError"
            /\ BadFormat(names[first], arg[2]) =>
                 (ret.msg = "Unknown format specification" /\ ret.msg # "Unknown field name")
            /\ ~BadFormat(names[first], arg[2]) =>
                 (ret.msg = "Unknown field name" /\ ret.args = <<WordField(names[first], arg[2])>>)

\* a list mixing a plain name and field.formatter names, accepted
C9_Witness ==
  /\ ValidatedString
  /\ arg[2]
  /\ arg[1] = StrV(Join(<<S_name, Join(<<S_name, S_raw, S_strip>>, <<".">>)>>, <<",", " ">>))
  /\ ~IsRaise(ret)

\* the fields a sort list names, in order, each with its direction
SortPairs(fields) ==
  LET w == ListNames(fields)
  IN [i \in 1..Len(w) |->
        IF w[i][1] = "-" THEN [name |-> Tail(w[i]), desc |-> TRUE]
        ELSE [name |-> w[i], desc |-> FALSE]]

\* a sorts before b: the first field that differs decides, by its direction
RECURSIVE SortsBefore(_, _, _)
SortsBefore(pairs, a, b) ==
  IF pairs = <<>> THEN FALSE
  ELSE LET x == a.v[Head(pairs).name]
           y == b.v[Head(pairs).name]
       IN IF x = y THEN SortsBefore(Tail(pairs), a, b)
          ELSE IF Head(pairs).desc THEN Less(y, x).v ELSE Less(x, y).v

\* C6: the comparator of a list with a '-' name walks the fields in listed
\* order, skips equal ones and returns the natural less-than of the first
\* that differs, inverted when it was written with '-'; 'not less' when all
\* are equal.  For "-size name" size 5 sorts before size 3.
C6_MixedComparator ==
  (op = "lt" /\ sortarg.k = "str") =>
    /\ ret = BoolV(SortsBefore(SortPairs(sortarg), arg[1], arg[2]))
    /\ (sortarg = StrV(Join(<<<<"-">> \o S_size, S_name>>, <<" ">>))
         /\ arg[1].v[S_size] = IntV(5) /\ arg[2].v[S_size] = IntV(3))
        => ret = BoolV(TRUE)

\* C7: the key of a list without '-' orders items by the tuple of the values
\* of the named fields, in listed order (the value itself for one field).
C7_TupleKey ==
  (op = "key" /\ sortarg.k = "str") =>
    LET names == ListNames(sortarg)
    IN ret = IF Len(names) = 1 THEN arg[1].v[names[1]]
             ELSE TupleV([i \in 1..Len(names) |-> arg[1].v[names[i]]])

\* Key(a) < Key(b) with the sorting key in hand
KeyLess(a, b) == KeyLt(Iter(sortkey.sort_fields), sortkey.descending, a, b)

\* C8: the comparator of a list with a '-' name is a strict weak ordering of
\* the items: never a < a; a < b and b < c give a < c; a < b excludes b < a.
C8_StrictWeakOrder ==
  sortkey.k = "Key" =>
    \A a \in SortItems, b \in SortItems, c \in SortItems :
       /\ KeyLess(a, a) = BoolV(FALSE)
       /\ KeyLess(a, b).k = "bool"
       /\ (KeyLess(a, b) = BoolV(TRUE) /\ KeyLess(b, c) = BoolV(TRUE))
            => KeyLess(a, c) = BoolV(TRUE)
       /\ KeyLess(a, b) = BoolV(TRUE) => KeyLess(b, a) = BoolV(FALSE)

\* C10: validate_field_list returns the list of the names of the string, the
\* name filter applied; so the names validate_sort_fields walks are whole
\* registered field names without a leading '-'.
C10_ReturnsNames ==
  /\ (ValidatedString /\ ~IsRaise(ret)) => ret = ListV(ListNames(arg[1]))
  /\ (sortkey.k # "none" /\ sortarg.k = "str") =>
       /\ Iter(sortkey.sort_fields)
            = [i \in 1..Len(ListNames(sortarg)) |-> SortPairs(sortarg)[i].name]
       /\ \A i \in 1..Len(Iter(sortkey.sort_fields)) :
            Iter(sortkey.sort_fields)[i] \in FIELDS

\* C11: validate_field_list takes a list of names as it takes a string: a
\* list of valid field names is accepted, a list with an unknown name fails
\* with the unknown-field-name UserError.
C11_ListInput ==
  (op = "validate_field_list" /\ arg[1].k = "list") =>
    IF \E i \in 1..Len(arg[1].v) : BadField(arg[1].v[i], arg[2])
    THEN IsRaise(ret) /\ ret.cls = "UserError" /\ ret.msg = "Unknown field name"
    ELSE ~IsRaise(ret)

\* the strategy the tag of a spec names, and the one its first characters name
TagStrategy(format_spec) ==
  IF IsTag(format_spec.engine, S_tempita) THEN "tempita"
  ELSE IF IsTag(format_spec.engine, S_jinja2) THEN "jinja2"
  ELSE "interpolation"
PrefixStrategy(text) ==
  IF StartsWith(text, <<"{", "{">>) THEN "tempita"
  ELSE IF StartsWith(text, <<"{", "#">>) THEN "jinja2"
  ELSE "interpolation"

\* C12: format_item runs exactly one strategy per call, chosen from the spec
\* alone: the one its engine tag names when it has a tag, whatever its text
\* begins with; without a tag tempita for a text that begins with "{{",
\* jinja2 for one that begins with "{#", interpolation for any other.
C12_StrategyFromSpec ==
  op = "format_item" =>
    /\ Len(branch) = 1
    /\ branch[1].strategy =
         IF arg.spec.k = "template" THEN TagStrategy(arg.spec)
         ELSE PrefixStrategy(arg.spec.v)

\* a template tagged jinja2 whose text begins with "{{" was rendered by jinja2
C12_Witness ==
  /\ op = "format_item"
  /\ arg.spec.k = "template"
  /\ IsTag(arg.spec.engine, S_jinja2)
  /\ StartsWith(arg.spec.v, <<"{", "{">>)
  /\ Len(branch) = 1
  /\ branch[1].strategy = "jinja2"

\* the call rendered headers by interpolation
HeaderInterpolation ==
  /\ op = "format_item"
  /\ arg.item.k = "None"
  /\ Len(branch) = 1
  /\ branch[1].strategy = "interpolation"

\* C13: rendering headers by interpolation never raises a TypeError, whatever
\* the flags, width, precision and conversion type of the directives of the
\* format string are.
C13_HeaderNoTypeError ==
  HeaderInterpolation => ~(IsRaise(ret) /\ ret.cls = "TypeError")

\* the failures of a template engine the claim names: a missing name, a type
\* mismatch, a value error, a spec the engine cannot render
TemplateFailures == {"NameError", "TypeError", "ValueError", "AttributeError"}

\* C14: a failure while a template is expanded by tempita or by jinja2 reaches
\* the caller as one LoggableError that carries the kind of the exception, its
\* message and the numbered lines of the template; the exception itself does
\* not escape, under either engine.
C14_TemplateErrorWrapped ==
  (/\ op = "format_item"
   /\ Len(branch) = 1
   /\ branch[1].strategy \in {"tempita", "jinja2"}
   /\ IsRaise(chainExc)
   /\ chainExc.cls \in TemplateFailures)
  => /\ IsRaise(ret)
     /\ ret.cls = "LoggableError"
     /\ ret.args = <<chainExc.cls, chainExc.msg, NumberedLines(arg.spec.v)>>

\* the formatters with a handler, and the conversion each one tries
PlaceholderFormatters == {S_sz, S_iso, S_duration, S_delta}
Conversion(name, val, clock) ==
  CASE name = S_sz -> human_size(val)
    [] name = S_iso -> iso_datetime(val)
    [] OTHER ->
         IF IsRaise(FloatOf(val)) THEN FloatOf(val)
         ELSE human_duration(FloatOf(val), IF name = S_delta THEN clock ELSE 0)

\* C15 as stated: every formatter of the catalog, called on None, returns "N/A"
\* right-justified to the width of its rendering of zero, and raises nothing.
C15_PlaceholderEveryFormatter ==
  (op = "fmt" /\ arg[2].k = "None") =>
    /\ ~IsRaise(ret)
    /\ ~IsRaise(CallFmt(arg[1], IntV(0)))
    /\ ret = StrV(RJust(S_NA, Len(StrOf(CallFmt(arg[1], IntV(0))))))

\* C15, amended: sz, iso, duration and delta return "N/A" right-justified to
\* the width of their own rendering of zero whenever their conversion raises
\* ValueError or TypeError, and that error does not escape; the other
\* formatters have no placeholder: pc raises TypeError on None and strip
\* returns "None".
C15_PlaceholderOnFailure ==
  op = "fmt" =>
    /\ (/\ arg[1] \in PlaceholderFormatters
        /\ IsRaise(Conversion(arg[1], arg[2], now))
        /\ Conversion(arg[1], arg[2], now).cls \in {"ValueError", "TypeError"})
       => ret = StrV(RJust(S_NA, Len(Conversion(arg[1], IntV(0), now).v)))
    /\ (arg[1] = S_pc /\ arg[2].k = "None") => (IsRaise(ret) /\ ret.cls = "TypeError")
    /\ (arg[1] = S_strip /\ arg[2].k = "None") => ret = StrV(S_None)

\* sz called on None returned "N/A" as wide as "   0 bytes"
C15_Witness ==
  /\ op = "fmt"
  /\ arg = <<S_sz, NoneV>>
  /\ ret = StrV(RJust(S_NA, 10))

\* C16: while one thread's lookup registers a dynamic field and other threads
\* look names up and enumerate the registry for the header namespace, every
\* lookup of a field that exists and every enumeration ends without an error,
\* a name a reader saw is still registered, and what a reader sees of a name
\* is "registered" or "absent".
C16_ConcurrentRegistry ==
  /\ (conc.enum.pc = "done" => ~IsRaise(conc.enum.ret))
  /\ (conc.enum.pc \in {"iter", "done"} => conc.enum.seen \subseteq FIELDS)
  /\ (conc.look.pc = "done" => conc.look.ret.k = "bool")
  /\ ((conc.reg.pc = "done" /\ conc.reg.key \in BuiltinFields \cup Manifold)
        => ~IsRaise(conc.reg.ret))

\* C17: the defaults mapping a caller hands to OutputMapping is, after the
\* construction and after every resolve, exactly the mapping the caller
\* passed: the adapter changes no key of it.
C17_CallerDefaultsUnchanged == callerd.held = callerd.passed

\* the hosts that did not hold the item when run_item was called
Candidates == {h \in Hosts : mover.item \notin mover.before[h]}

\* C18: run_item moves the item to the host with the lowest digest among the
\* hosts that do not hold it yet, and to no other; it moves nothing when every
\* host holds it or when dry_run is set.
C18_LowestScoringHost ==
  mover.pc = "run_item" =>
    /\ ~IsRaise(mover.ret)
    /\ mover.moved =
         IF Candidates = {} \/ mover.dry_run THEN <<>>
         ELSE <<CHOOSE h \in Candidates :
                  \A g \in Candidates :
                    mover.digest[mover.item][h] <= mover.digest[mover.item][g]>>

\* C19: tempita and interpolation decide header mode alike: a call renders
\* headers exactly when its item is None, so an item that is present but
\* empty is rendered as data under both.
C19_HeaderIffNoItem ==
  (/\ op = "format_item"
   /\ Len(branch) = 1
   /\ branch[1].strategy \in {"tempita", "interpolation"})
  => (branch[1].headers <=> arg.item.k = "None")

\* what validate_field_list says of the format spec just resolved, format
\* specs allowed
Validated == validate_field_list(StrV(arg), TRUE, FALSE, FIELDS).ret

\* C20: the validator and the adapter agree on format specs: a spec that
\* validate_field_list accepts with format specs allowed (raw at any place of
\* the chain included) is resolved by __getitem__ without the
\* unknown-formatting-spec error, and a spec the validator rejects for an
\* unknown format specification is rejected by __getitem__ too.
C20_ValidatorAdapterAgree ==
  op = "getitem" =>
    /\ ~IsRaise(Validated)
         => ~(IsRaise(ret) /\ ret.msg = "Unknown formatting spec")
    /\ (IsRaise(Validated) /\ Validated.msg = "Unknown format specification")
         => (IsRaise(ret) /\ ret.cls = "UserError")

\* the parts of C21: the load commands sent for one info hash, what dry_run
\* leaves undone, and the skipping of a metafile whose hash the daemon holds
\* when load_metafile asks for it
LoadedAtMostOnce == \A h \in DOMAIN watch.loads : watch.loads[h] <= 1
DryRunInert ==
  watch.dry_run =>
    /\ \A h \in DOMAIN watch.loads : watch.loads[h] = 0
    /\ watch.removed = {}
HeldIsSkipped ==
  \A t \in LoadCallers :
    (/\ watch[t].pc = "hash"
     /\ watch'[t] # watch[t]
     /\ Metafiles[watch[t].path].info_hash \in watch.held)
    => /\ watch'[t].pc \in {"wait", "after"}
       /\ watch'.loads = watch.loads

\* C21: in the TreeWatch job, under every interleaving of the watcher thread
\* and the scheduled run() inside load_metafile, the load command is sent to
\* the daemon at most once for an info hash, a metafile whose hash the
\* daemon already holds is skipped, and with dry_run set no load command is
\* sent and no file is removed
C21_LoadAtMostOnce ==
  /\ [](LoadedAtMostOnce /\ DryRunInert)
  /\ [][HeldIsSkipped]_vars

====
